---- MODULE Spec2Model ----
(***************************************************************************)
(* A model of atmosrt/smarts.py: the SMARTS adapter of AtmosRT.            *)
(*                                                                         *)
(*   translate  : semantic ParameterSet -> SMARTS short-code dictionary    *)
(*   cardify    : short-code dictionary -> text of the SMARTS input file   *)
(*   SMARTS.run : scoped execution of the solver in a working directory    *)
(*   SMARTS.spectrum : run + retrieval of the output file                  *)
(*   SMARTS.irradiance : spectrum + integration across the spectrum        *)
(*   SMARTS.raw : retrieval of one file of a working directory             *)
(*                                                                         *)
(* Python values are tagged records [t |-> type, v |-> payload] so that    *)
(* the dynamic typing of the source (dict lookups, truthiness, %-formats)  *)
(* is computed rather than assumed.  Python dicts are sequences of         *)
(* <<key, value>> pairs with unique keys, in insertion order.              *)
(***************************************************************************)
EXTENDS Integers, Sequences, FiniteSets, TLC

VARIABLES
    pc,         \* position of the operation in progress ("idle" between calls)
    op,         \* entry point in progress: "translate", "cardify", "run",
                \* "spectrum", "irradiance", "raw"
    config,     \* the caller's ParameterSet (self.config / params of translate)
    tin,        \* the dictionary handed to cardify
    tres,       \* result of translate: [err, translated, processed, paths]
    cres,       \* result of cardify: [err, content]
    working,    \* the working context: [acquired, released, linked, input]
    solver,     \* the solver process: [runs, code, hasLog, log, output, logRead]
    pending,    \* exception in flight inside the with-blocks ("none" if none)
    outcome,    \* what the caller has observed: [kind, cls, msg]
    trace       \* the steps of the run in the order they happened

vars == <<pc, op, config, tin, tres, cres, working, solver, pending, outcome, trace>>

-----------------------------------------------------------------------------
(* Python values *)

V(t, v) == [t |-> t, v |-> v]

PyInt(n) == V("int", n)
PyStr(s) == V("str", s)
PyBool(b) == V("bool", b)
\* a float that is a whole number of quarters: the value n / 4.0, which a
\* double holds exactly, so that products with integers are exact too
PyFloat(n) == V("float", n)
\* a naive datetime.datetime on a quarter hour:
\* <<year, month, day, hour, quarter>>, minute = 15 * quarter, second = 0
PyTime(y, mo, d, h, q) == V("time", <<y, mo, d, h, q>>)

\* whether '%f' % x is defined
IsNumber(x) == x.t \in {"int", "bool", "float"}

\* the integer an int or a bool stands for in arithmetic (True is 1, False is 0)
NumVal(x) == IF x.t = "bool" THEN (IF x.v THEN 1 ELSE 0) ELSE x.v

\* the number of quarters in a number
Quarters(x) == IF x.t = "float" THEN x.v ELSE 4 * NumVal(x)

\* bool(x): the truth value `1 if v else 0` tests
PyTruth(x) ==
    CASE x.t = "bool" -> x.v
      [] x.t = "int" -> x.v # 0
      [] x.t = "float" -> x.v # 0
      [] x.t = "str" -> x.v # ""
      [] x.t = "time" -> TRUE

\* x == n for an integer literal n
PyEqInt(x, n) == IsNumber(x) /\ Quarters(x) = 4 * n

RECURSIVE Repeat(_, _)
\* the string s repeated n times
Repeat(s, n) ==
    IF n <= 0 THEN ""
    ELSE LET half == Repeat(s, n \div 2)
         IN  half \o half \o (IF n % 2 = 1 THEN s ELSE "")

\* whether x * n is defined for an integer literal n
CanMul(x) == x.t \in {"int", "bool", "float", "str"}

\* x * n for an integer literal n
PyMul(x, n) ==
    CASE x.t = "str" -> PyStr(Repeat(x.v, n))
      [] x.t = "float" -> PyFloat(x.v * n)
      [] OTHER -> PyInt(NumVal(x) * n)

Abs(n) == IF n < 0 THEN 0 - n ELSE n

Sign(n) == IF n < 0 THEN "-" ELSE ""

\* the digits repr prints after the point for r quarters, r in 0..3
FloatFraction(r) ==
    CASE r = 0 -> "0"
      [] r = 1 -> "25"
      [] r = 2 -> "5"
      [] r = 3 -> "75"

\* n zero-padded to two digits
Pad2(n) == IF n < 10 THEN "0" \o ToString(n) ELSE ToString(n)

\* n zero-padded to four digits
Pad4(n) ==
    IF n < 10 THEN "000" \o ToString(n)
    ELSE IF n < 100 THEN "00" \o ToString(n)
    ELSE IF n < 1000 THEN "0" \o ToString(n)
    ELSE ToString(n)

\* str(x), as '%s' % x and str(x) produce it
Str(x) ==
    CASE x.t = "int" -> ToString(x.v)
      [] x.t = "bool" -> (IF x.v THEN "True" ELSE "False")
      [] x.t = "str" -> x.v
      [] x.t = "float" ->
            Sign(x.v) \o ToString(Abs(x.v) \div 4) \o "." \o FloatFraction(Abs(x.v) % 4)
      [] x.t = "time" ->
            Pad4(x.v[1]) \o "-" \o Pad2(x.v[2]) \o "-" \o Pad2(x.v[3]) \o " "
                \o Pad2(x.v[4]) \o ":" \o Pad2(15 * x.v[5]) \o ":00"

\* '%f' % x for a number: six digits after the point
FmtF(x) ==
    LET q == Quarters(x)
    IN  Sign(q) \o ToString(Abs(q) \div 4) \o "." \o Pad2(25 * (Abs(q) % 4)) \o "0000"

-----------------------------------------------------------------------------
(* Python strings *)

\* the characters str.split() splits on, among those a string here can hold:
\* space, \t \n \r \f, the controls \x0b \x1c \x1d \x1e \x1f, and \x85,
\* \xa0 and \u1680
IsSpace(c) ==
    c \in {" ", "\t", "\n", "\r", "\f", "", "", "", "", "", "", " ",
           " "}

\* s[:n]
Truncate(s, n) == IF Len(s) <= n THEN s ELSE SubSeq(s, 1, n)

RECURSIVE SplitFrom(_, _, _, _)
SplitFrom(s, i, cur, acc) ==
    IF i > Len(s)
    THEN (IF cur = "" THEN acc ELSE Append(acc, cur))
    ELSE LET c == SubSeq(s, i, i)
         IN  IF IsSpace(c)
             THEN SplitFrom(s, i + 1, "", IF cur = "" THEN acc ELSE Append(acc, cur))
             ELSE SplitFrom(s, i + 1, cur \o c, acc)

\* s.split(): the words of s, split on runs of whitespace
PySplit(s) == SplitFrom(s, 1, "", <<>>)

RECURSIVE PyJoin(_, _)
\* sep.join(words)
PyJoin(sep, words) ==
    IF words = <<>> THEN ""
    ELSE IF Len(words) = 1 THEN words[1]
    ELSE words[1] \o sep \o PyJoin(sep, Tail(words))

\* sub in s
Contains(sub, s) ==
    \E i \in 1..(Len(s) - Len(sub) + 1) : SubSeq(s, i, i + Len(sub) - 1) = sub

-----------------------------------------------------------------------------
(* Python dicts as sequences of <<key, value>> pairs *)

Keys(d) == {d[i][1] : i \in 1..Len(d)}

HasKey(d, k) == \E i \in 1..Len(d) : d[i][1] = k

Get(d, k) == d[CHOOSE i \in 1..Len(d) : d[i][1] = k][2]

\* d[k] = v: an existing key keeps its position, a new key goes last
Put(d, k, v) ==
    IF HasKey(d, k)
    THEN [i \in 1..Len(d) |-> IF d[i][1] = k THEN <<k, v>> ELSE d[i]]
    ELSE Append(d, <<k, v>>)

RECURSIVE Update(_, _)
\* d.update(e)
Update(d, e) ==
    IF e = <<>> THEN d
    ELSE Update(Put(d, e[1][1], e[1][2]), Tail(e))

-----------------------------------------------------------------------------
(* translate: the tables *)

\* settings.defaults: one entry for every semantic parameter the SMARTS
\* adapter knows, so that cardify finds every short-code it prints
defaults ==
    << <<"description", PyStr("Default Rtm")>>,
       <<"solar_constant", PyInt(1367)>>,
       <<"season", PyStr("summer")>>,
       <<"time", PyTime(2012, 6, 21, 16, 2)>>,
       <<"latitude", PyInt(45)>>,
       <<"longitude", PyInt(-76)>>,
       <<"elevation", PyInt(0)>>,
       <<"surface_type", PyStr("vegetation")>>,
       <<"single_scattering_albedo", PyInt(1)>>,
       <<"atmosphere", PyStr("sub-arctic summer")>>,
       <<"average_daily_temperature", PyInt(15)>>,
       <<"temperature", PyInt(15)>>,
       <<"pressure", PyInt(1013)>>,
       <<"relative_humidity", PyInt(35)>>,
       <<"angstroms_coefficient", PyInt(1)>>,
       <<"angstroms_exponent", PyInt(1)>>,
       <<"aerosol_asymmetry", PyInt(1)>>,
       <<"boundary_layer_ozone", PyInt(0)>>,
       <<"tropospheric_ozone", PyInt(3)>>,
       <<"carbon_dioxide", PyInt(390)>>,
       <<"formaldehyde", PyInt(0)>>,
       <<"methane", PyInt(0)>>,
       <<"carbon_monoxide", PyInt(0)>>,
       <<"nitrous_acid", PyInt(0)>>,
       <<"nitric_acid", PyInt(0)>>,
       <<"nitric_oxide", PyInt(0)>>,
       <<"nitrogen_dioxide", PyInt(0)>>,
       <<"nitrogen_trioxide", PyInt(0)>>,
       <<"sulphur_dioxide", PyInt(0)>>,
       <<"nitrogen", PyInt(78)>>,
       <<"oxygen", PyInt(21)>>,
       <<"ammonia", PyInt(0)>>,
       <<"nitrous_oxide", PyInt(0)>>,
       <<"cloud_altitude", PyInt(6)>>,
       <<"cloud_thickness", PyInt(0)>>,
       <<"cloud_optical_depth", PyInt(0)>>,
       <<"lower_limit", PyInt(1)>>,
       <<"upper_limit", PyInt(4)>>,
       <<"resolution", PyInt(1)>>,
       <<"smarts_use_standard_atmos", PyBool(FALSE)>> >>

unsupported ==
    <<"cloud_altitude", "cloud_thickness", "cloud_optical_depth",
      "nitrogen", "oxygen", "ammonia", "nitrous_oxide">>

InUnsupported(param) == \E i \in 1..Len(unsupported) : unsupported[i] = param

hard_code ==
    << <<"HEIGHT", PyInt(0)>>,
       <<"ZONE", PyInt(0)>>,
       <<"SUNCOR", PyInt(1)>> >>

direct ==
    << <<"solar_constant", "SOLARC">>,
       <<"longitude", "LONGIT">>,
       <<"latitude", "LATIT">>,
       <<"elevation", "ALTIT">>,
       <<"average_daily_temperature", "TAIR">>,
       <<"temperature", "TDAY">>,
       <<"pressure", "SPR">>,
       <<"relative_humidity", "RH">>,
       <<"carbon_dioxide", "qCO2">>,
       <<"single_scattering_albedo", "OMEGL">>,
       <<"angstroms_coefficient", "TAU550">>,
       <<"aerosol_asymmetry", "GG">>,
       <<"boundary_layer_ozone", "AbO3">>,
       <<"formaldehyde", "ApCH2O">>,
       <<"methane", "ApCh4">>,
       <<"carbon_monoxide", "ApCO">>,
       <<"nitrous_acid", "ApHNO2">>,
       <<"nitric_acid", "ApHNO3">>,
       <<"nitric_oxide", "ApNO">>,
       <<"nitrogen_dioxide", "ApNO2">>,
       <<"nitrogen_trioxide", "ApNO3">>,
       <<"sulphur_dioxide", "ApSO2">> >>

InDirect(param) == HasKey(direct, param)

\* the keys of the convert table
ConvertKeys ==
    {"description", "time", "season", "surface_type", "atmosphere",
     "angstroms_exponent", "tropospheric_ozone", "lower_limit", "upper_limit",
     "resolution", "smarts_use_standard_atmos"}

InConvert(param) == param \in ConvertKeys

\* convert[param][0]: the dependency tuple of every entry is ()
ConvertDeps(param) == <<>>

SeasonCodes ==
    << <<"winter", PyStr("WINTER")>>,
       <<"summer", PyStr("SUMMER")>> >>

SurfaceCodes ==
    << <<"snow", PyInt(3)>>,
       <<"clear water", PyInt(2)>>,
       <<"lake water", PyInt(35)>>,
       <<"sea water", PyInt(35)>>,
       <<"sand", PyInt(6)>>,
       <<"vegetation", PyInt(17)>>,
       <<"ocean water", PyInt(35)>> >>

AtmosCodes ==
    << <<"tropical", PyStr("TRL")>>,
       <<"mid-latitude summer", PyStr("MLS")>>,
       <<"mid-latitude winter", PyStr("MLW")>>,
       <<"sub-arctic summer", PyStr("SAS")>>,
       <<"sub-arctic winter", PyStr("SAW")>>,
       <<"us62", PyStr("USSA")>> >>

\* v[:64]
DescriptionLimit == 64

Ok(out) == [err |-> "none", out |-> out]
Raise(e) == [err |-> e, out |-> <<>>]

\* Lookup with table.get(v, v): a value that is no key is passed through
LookupPassThrough(table, code, v) ==
    IF v.t = "str" /\ HasKey(table, v.v)
    THEN Ok(<< <<code, Get(table, v.v)>> >>)
    ELSE Ok(<< <<code, v>> >>)

\* {table}[v] stored under short-code code: a value that is no key of the
\* table raises KeyError
Lookup(table, code, v) ==
    IF v.t = "str" /\ HasKey(table, v.v)
    THEN Ok(<< <<code, Get(table, v.v)>> >>)
    ELSE Raise("KeyError")

\* Scaled with the conversion missing on the second short-code
ScaledFirstOnly(codes, v, n) ==
    IF CanMul(v)
    THEN Ok([i \in 1..Len(codes) |-> <<codes[i], IF i = 1 THEN PyMul(v, n) ELSE v>>])
    ELSE Raise("TypeError")

\* v * n stored under each of the short-codes
Scaled(codes, v, n) ==
    IF CanMul(v)
    THEN Ok([i \in 1..Len(codes) |-> <<codes[i], PyMul(v, n)>>])
    ELSE Raise("TypeError")

\* convert[param][1](v): the short-code/value pairs the conversion yields
Convert(param, v) ==
    CASE param = "description" ->
            IF v.t = "str"
            THEN Ok(<< <<"COMNT", PyStr(PyJoin("_", PySplit(Truncate(v.v, DescriptionLimit))))>> >>)
            ELSE Raise("TypeError")
      [] param = "time" ->
            IF v.t = "time"
            THEN Ok(<< <<"YEAR", PyInt(v.v[1])>>,
                       <<"MONTH", PyInt(v.v[2])>>,
                       <<"DAY", PyInt(v.v[3])>>,
                       <<"HOUR", PyFloat(4 * v.v[4] + v.v[5])>> >>)
            ELSE Raise("AttributeError")
      [] param = "season" -> Lookup(SeasonCodes, "SEASON", v)
      [] param = "surface_type" -> Lookup(SurfaceCodes, "IALBDX", v)
      [] param = "atmosphere" -> Lookup(AtmosCodes, "ATMOS", v)
      [] param = "angstroms_exponent" -> Ok(<< <<"ALPHA1", v>>, <<"ALPHA2", v>> >>)
      [] param = "tropospheric_ozone" -> Scaled(<<"ApO3">>, v, 10)
      [] param = "lower_limit" -> Scaled(<<"WLMN", "WPMN">>, v, 1000)
      [] param = "upper_limit" -> Scaled(<<"WLMX", "WPMX">>, v, 1000)
      [] param = "resolution" -> Scaled(<<"INTVL">>, v, 1000)
      [] param = "smarts_use_standard_atmos" ->
            Ok(<< <<"IATMOS", PyInt(IF PyTruth(v) THEN 1 ELSE 0)>> >>)
      [] OTHER -> Raise("KeyError")

-----------------------------------------------------------------------------
(* translate: the algorithm *)

InSeq(s, x) == \E i \in 1..Len(s) : s[i] = x

\* the state of translate: the dictionary built so far, the keys processed,
\* the path each of them took and the keys printed as unknown
TState(err, translated, processed, paths) ==
    [err |-> err, translated |-> translated, processed |-> processed, paths |-> paths]

\* the path addItem takes for a key
PathOf(param) ==
    IF InUnsupported(param) THEN "dropped"
    ELSE IF InDirect(param) THEN "direct"
    ELSE IF InConvert(param) THEN "derived"
    ELSE "unknown"

\* AddItem storing a key it does not know under its own name
AddItemPassUnknown(st, param, val) ==
    LET path == PathOf(param)
        done == TState("none", st.translated, Append(st.processed, param),
                       Append(st.paths, path))
    IN  CASE path = "dropped" -> done
          [] path = "direct" ->
                [done EXCEPT !.translated = Put(st.translated, Get(direct, param), val)]
          [] path = "derived" ->
                LET r == Convert(param, val)
                IN  IF r.err # "none"
                    THEN [st EXCEPT !.err = r.err]
                    ELSE [done EXCEPT !.translated = Update(st.translated, r.out)]
          [] OTHER -> [done EXCEPT !.translated = Put(st.translated, param, val)]

\* addItem(param, val) applied to the state st
AddItem(st, param, val) ==
    LET path == PathOf(param)
        done == TState("none", st.translated, Append(st.processed, param),
                       Append(st.paths, path))
    IN  CASE path = "dropped" -> done
          [] path = "direct" ->
                [done EXCEPT !.translated = Put(st.translated, Get(direct, param), val)]
          [] path = "derived" ->
                IF \E i \in 1..Len(ConvertDeps(param)) :
                       ~InSeq(st.processed, ConvertDeps(param)[i])
                THEN [st EXCEPT !.err = "TypeError"]
                ELSE LET r == Convert(param, val)
                     IN  IF r.err # "none"
                         THEN [st EXCEPT !.err = r.err]
                         ELSE [done EXCEPT !.translated = Update(st.translated, r.out)]
          [] OTHER -> done

RECURSIVE TranslateLoop(_, _, _)
\* for param, val in p.items(): if param not in processed: addItem(param, val)
TranslateLoop(st, p, i) ==
    IF i > Len(p) \/ st.err # "none" THEN st
    ELSE IF InSeq(st.processed, p[i][1])
         THEN TranslateLoop(st, p, i + 1)
         ELSE TranslateLoop(AddItem(st, p[i][1], p[i][2]), p, i + 1)

\* p = dict(settings.defaults); p.update(params)
Merged(params) == Update(defaults, params)

\* translate(params): err is "none" and translated is the dictionary
\* returned, or err names the exception raised and nothing is returned
translate(params) ==
    LET st == TranslateLoop(TState("none", hard_code, <<>>, <<>>), Merged(params), 1)
    IN  IF st.err = "none" THEN st ELSE [st EXCEPT !.translated = <<>>]

-----------------------------------------------------------------------------
(* cardify *)

\* params[k] where the key is known to be there; "" stands in where it is
\* not, and the card that reads it raises KeyError before its text is used
Field(params, k) == IF HasKey(params, k) THEN Get(params, k) ELSE PyStr("")

\* '%s' % params[k]
S(params, k) == Str(Field(params, k))

\* '%f' % params[k]; "" stands in for a value that is no number, and the
\* card that formats it raises TypeError before its text is used
F(params, k) == IF IsNumber(Field(params, k)) THEN FmtF(Field(params, k)) ELSE ""

\* one call of card_print: the assertion that guards it, the keys its
\* argument reads, those of them formatted with %f, its text and its comment
Card(assertion, keys, fkeys, text, comment) ==
    [assertion |-> assertion, keys |-> keys, fkeys |-> fkeys,
     text |-> text, comment |-> comment]

Const(text, comment) == Card(TRUE, <<>>, <<>>, text, comment)

\* card_print with the line end under `if comment:`
card_print_break_in_if(something, comment) ==
    something \o (IF comment # "" THEN " \t\t\t! " \o comment \o "\n" ELSE "")

\* the text card_print appends for one call (no_break is never passed)
card_print(something, comment) ==
    something \o (IF comment # "" THEN " \t\t\t! " \o comment ELSE "") \o "\n"

Gases ==
    <<"ApCH2O", "ApCh4", "ApCO", "ApHNO2", "ApHNO3", "ApNO", "ApNO2",
      "ApNO3", "ApO3", "ApSO2">>

RECURSIVE GasText(_, _)
\* '%f %f ... %f' % tuple(params[gas] for gas in [...])
GasText(params, i) ==
    IF i > Len(Gases) THEN ""
    ELSE (IF i > 1 THEN " " ELSE "") \o F(params, Gases[i]) \o GasText(params, i + 1)

\* Card3a without the assert: every mode but 0 takes the ATMOS sub-card
Card3aNoAssert(params) ==
    IF HasKey(params, "IATMOS") /\ PyEqInt(Get(params, "IATMOS"), 0)
    THEN Card(TRUE, <<"TAIR", "RH", "SEASON", "TDAY">>, <<>>,
              S(params, "TAIR") \o " " \o S(params, "RH") \o " '"
                  \o S(params, "SEASON") \o "' " \o S(params, "TDAY"), "")
    ELSE Card(TRUE, <<"ATMOS">>, <<>>, "'" \o S(params, "ATMOS") \o "'", "")

\* CARD 3: the sub-card the IATMOS mode selects
Card3a(params) ==
    IF HasKey(params, "IATMOS") /\ PyEqInt(Get(params, "IATMOS"), 0)
    THEN Card(TRUE, <<"TAIR", "RH", "SEASON", "TDAY">>, <<>>,
              S(params, "TAIR") \o " " \o S(params, "RH") \o " '"
                  \o S(params, "SEASON") \o "' " \o S(params, "TDAY"), "")
    ELSE Card(HasKey(params, "IATMOS") /\ PyEqInt(Get(params, "IATMOS"), 1),
              <<"ATMOS">>, <<>>, "'" \o S(params, "ATMOS") \o "'", "")

\* the calls of card_print in the order cardify makes them
Cards(params) ==
    << Card(TRUE, <<"COMNT">>, <<>>, "'" \o S(params, "COMNT") \o "'", "1 COMNT"),
       Const("1", "2 ISPR mode select"),
       Card(TRUE, <<"SPR", "ALTIT", "HEIGHT">>, <<>>,
            S(params, "SPR") \o " " \o S(params, "ALTIT") \o " " \o S(params, "HEIGHT"), ""),
       Card(TRUE, <<"IATMOS">>, <<>>, S(params, "IATMOS"), "3 IATMOS mode select"),
       Card3a(params),
       Const("2", "4 IH2O mode select"),
       Const("0", "5 IO3 mode select"),
       Card(TRUE, <<"AbO3">>, <<"AbO3">>, "0 " \o F(params, "AbO3"), "ozone column"),
       Const("0", "6 IGAS"),
       Const("0", "ILOAD"),
       Card(TRUE, Gases, Gases, GasText(params, 1), "gasses"),
       Card(TRUE, <<"qCO2">>, <<>>, S(params, "qCO2"), "7 qCO2 ppm"),
       Const("0", ""),
       Const("'USER'", "8 AEROS"),
       Card(TRUE, <<"ALPHA1", "ALPHA2", "OMEGL", "GG">>, <<>>,
            S(params, "ALPHA1") \o " " \o S(params, "ALPHA2") \o " "
                \o S(params, "OMEGL") \o " " \o S(params, "GG"), ""),
       Const("5", "9 ITURB"),
       Card(TRUE, <<"TAU550">>, <<>>, S(params, "TAU550"), ""),
       Card(TRUE, <<"IALBDX">>, <<>>, S(params, "IALBDX"), "10 IALBDX"),
       Const("0", ""),
       Card(TRUE, <<"WLMN", "WLMX", "SUNCOR", "SOLARC">>, <<>>,
            S(params, "WLMN") \o " " \o S(params, "WLMX") \o " "
                \o S(params, "SUNCOR") \o " " \o S(params, "SOLARC"), "11 blergh"),
       Const("2", "12 IPRT"),
       Card(TRUE, <<"WPMN", "WPMX", "INTVL">>, <<>>,
            S(params, "WPMN") \o " " \o S(params, "WPMX") \o " " \o S(params, "INTVL"), ""),
       Const("4", ""),
       Const("2 3 4 5", ""),
       Const("0", "13 ICIRC"),
       Const("0", "14 ISCAN"),
       Const("0", "15 ILLUM"),
       Const("0", "16 IUV"),
       Const("3", "17 IMASS"),
       Card(TRUE, <<"YEAR", "MONTH", "DAY", "HOUR", "LATIT", "LONGIT", "ZONE">>, <<>>,
            S(params, "YEAR") \o " " \o S(params, "MONTH") \o " " \o S(params, "DAY")
                \o " " \o S(params, "HOUR") \o " " \o S(params, "LATIT") \o " "
                \o S(params, "LONGIT") \o " " \o S(params, "ZONE"), ""),
       Const("", "") >>

\* the exception one call raises, "none" if it prints
CardError(params, card) ==
    IF ~card.assertion THEN "AssertionError"
    ELSE IF \E i \in 1..Len(card.keys) : ~HasKey(params, card.keys[i]) THEN "KeyError"
    ELSE IF \E i \in 1..Len(card.fkeys) : ~IsNumber(Get(params, card.fkeys[i]))
         THEN "TypeError"
    ELSE "none"

RECURSIVE CardLoop(_, _, _, _)
CardLoop(params, cards, i, content) ==
    IF i > Len(cards) THEN [err |-> "none", content |-> content]
    ELSE LET e == CardError(params, cards[i])
         IN  IF e # "none" THEN [err |-> e, content |-> ""]
             ELSE CardLoop(params, cards, i + 1,
                           content \o card_print(cards[i].text, cards[i].comment))

\* cardify(params): err is "none" and content is the string returned, or err
\* names the exception raised and nothing is returned
cardify(params) == CardLoop(params, Cards(params), 1, "")

\* cardify(translate(params)), line 45 of SMARTS.run
Deck(params) ==
    LET t == translate(params)
    IN  IF t.err # "none" THEN [err |-> t.err, content |-> ""]
        ELSE cardify(t.translated)

-----------------------------------------------------------------------------
(* Exceptions *)

\* the class statements: each exception class and its base class
Base(cls) ==
    CASE cls = "SunDownError" -> "SMARTSError"
      [] cls = "SMARTSError" -> "RTMError"
      [] OTHER -> "Exception"

Classes ==
    {"Exception", "RTMError", "SMARTSError", "SunDownError", "KeyError",
     "TypeError", "AttributeError", "AssertionError", "IOError", "ParserError",
     "CallerError"}

RECURSIVE Catches(_, _)
\* whether `except handler` catches an exception of class cls
Catches(handler, cls) ==
    \/ handler = cls
    \/ cls # "Exception" /\ Catches(handler, Base(cls))

Exc(cls, msg) == [cls |-> cls, msg |-> msg]
NoExc == Exc("none", "")

-----------------------------------------------------------------------------
(* SMARTS.run: classification of the solver's result *)

\* the exit code of a shell that cannot find the command
NotFoundCode == 127

\* lines 49-52: the exception raised for an exit code, NoExc for 0
ExitError(code) ==
    IF code = NotFoundCode THEN Exc("SMARTSError", "SMARTS Executable not found")
    ELSE IF code # 0 THEN Exc("SMARTSError", "Execution failed with code")
    ELSE NoExc

\* lines 57-61: the exception raised for one line of smarts295.out.txt
LineError(line) ==
    IF Contains("ERROR", line)
    THEN IF Contains("** ERROR #7 ***", line)
         THEN Exc("SunDownError", "smarts refuses to work when the sun is down")
         ELSE Exc("SMARTSError", "smarts no like")
    ELSE NoExc

\* ScanLog looking for the code-7 marker in every line before it settles
\* for a plain ERROR line
ScanLogMarkerFirst(smlog, i) ==
    IF \E j \in i..Len(smlog) : Contains("** ERROR #7 ***", smlog[j])
    THEN Exc("SunDownError", "smarts refuses to work when the sun is down")
    ELSE IF \E j \in i..Len(smlog) : Contains("ERROR", smlog[j])
    THEN Exc("SMARTSError", "smarts no like")
    ELSE NoExc

RECURSIVE ScanLog(_, _)
\* lines 56-61: for line in smlog, the first line that raises ends the scan
ScanLog(smlog, i) ==
    IF i > Len(smlog) THEN NoExc
    ELSE IF LineError(smlog[i]).cls # "none" THEN LineError(smlog[i])
    ELSE ScanLog(smlog, i + 1)

\* line 55: working.get('smarts295.out.txt') raises IOError when the solver
\* has left no log, and nothing catches it
LogError(present) ==
    IF present THEN NoExc ELSE Exc("IOError", "No such file or directory")

\* lines 49-61: the exception SMARTS.run raises after the solver has
\* exited, NoExc when it goes on to yield
Classification(code, present, smlog) ==
    IF ExitError(code).cls # "none" THEN ExitError(code)
    ELSE IF LogError(present).cls # "none" THEN LogError(present)
    ELSE ScanLog(smlog, 1)

\* lines 68-72 of SMARTS.spectrum: working.get(output_file) raises IOError
\* when the file is not there, and the handler raises SMARTSError instead
OutputError(present) ==
    IF present THEN NoExc ELSE Exc("SMARTSError", "didn't get output")

\* lines 74-81 of SMARTS.spectrum: pandas.read_csv and the scaling of the
\* columns raise on an output file that is there but is no table (empty,
\* malformed); pandas raises a ParserError or EmptyDataError, and nothing
\* catches it
ParseError(output) ==
    IF output = "malformed" THEN Exc("ParserError", "") ELSE NoExc

\* lines 68-81: the exception the block of SMARTS.spectrum raises, NoExc
\* when it reaches its end
BlockError(output) ==
    IF OutputError(output # "absent").cls # "none" THEN OutputError(output # "absent")
    ELSE ParseError(output)

\* line 36 of SMARTS.raw: working.get(rawfile) raises IOError when the file
\* is not there, and nothing catches it
RawError(present) ==
    IF present THEN NoExc ELSE Exc("IOError", "No such file or directory")

\* Unwind with line 45 outside the with block: an exception of translate or
\* cardify does not pass the exit of the working context
UnwindSkipsExit(position) == IF position = "cards" THEN "leave" ELSE "exit"

\* Unwind with a retry: a failed classification runs the solver again
UnwindRetries(position) == IF position = "classify" THEN "exec" ELSE "exit"

\* where control goes when a statement of SMARTS.run or of the caller's
\* block raises: every one of them is inside `with _rtm.Working(self)`
\* (lines 42-62), so the exception leaves through the exit of that block
Unwind(position) == "exit"

-----------------------------------------------------------------------------
(* Inputs *)

\* how many parameters a caller of translate sets at once
MaxParams == 2

\* how many lines the solver writes to its log
MaxLogLen == 2

\* the parameter settings callers of translate choose from: every member of
\* the three enumerations, values outside them, keys translate does not
\* know (short-codes among them), unsupported keys, the fan-out keys, and
\* floats (0.25, 0.5, 0.0) where the parameter is a physical quantity
Candidates ==
    << <<"season", PyStr("winter")>>,
       <<"season", PyStr("summer")>>,
       <<"season", PyStr("autumn")>>,
       <<"season", PyStr("WINTER")>>,
       <<"surface_type", PyStr("snow")>>,
       <<"surface_type", PyStr("clear water")>>,
       <<"surface_type", PyStr("lake water")>>,
       <<"surface_type", PyStr("sea water")>>,
       <<"surface_type", PyStr("sand")>>,
       <<"surface_type", PyStr("vegetation")>>,
       <<"surface_type", PyStr("ocean water")>>,
       <<"surface_type", PyStr("ice")>>,
       <<"surface_type", PyInt(3)>>,
       <<"atmosphere", PyStr("tropical")>>,
       <<"atmosphere", PyStr("mid-latitude summer")>>,
       <<"atmosphere", PyStr("mid-latitude winter")>>,
       <<"atmosphere", PyStr("sub-arctic summer")>>,
       <<"atmosphere", PyStr("sub-arctic winter")>>,
       <<"atmosphere", PyStr("us62")>>,
       <<"atmosphere", PyStr("USSA")>>,
       <<"angstroms_exponent", PyInt(2)>>,
       <<"lower_limit", PyInt(2)>>,
       <<"lower_limit", PyFloat(1)>>,
       <<"tropospheric_ozone", PyFloat(2)>>,
       <<"smarts_use_standard_atmos", PyFloat(0)>>,
       <<"upper_limit", PyInt(3)>>,
       <<"elevation", PyInt(7)>>,
       <<"smarts_use_standard_atmos", PyBool(TRUE)>>,
       <<"description", PyStr("  two  words\tand\nmore ")>>,
       <<"time", PyTime(2021, 3, 4, 5, 3)>>,
       <<"nitrogen", PyInt(80)>>,
       <<"cloud_altitude", PyStr("high")>>,
       <<"HEIGHT", PyInt(5)>>,
       <<"ZONE", PyInt(2)>>,
       <<"SUNCOR", PyInt(0)>>,
       <<"zenith", PyInt(30)>> >>

RECURSIVE Picks(_, _)
\* the ways of picking at most n candidates, in the order of the table
Picks(n, lo) ==
    {<<>>} \cup
    (IF n = 0 THEN {}
     ELSE UNION {{<<Candidates[i]>> \o t : t \in Picks(n - 1, i + 1)} :
                    i \in lo..Len(Candidates)})

\* a dict has each key once
IsDict(d) == \A i, j \in 1..Len(d) : d[i][1] = d[j][1] => i = j

ParamSets == {d \in Picks(MaxParams, 1) : IsDict(d)}

\* the configurations SMARTS objects are built with
RunConfigs ==
    { <<>>,
      << <<"longitude", PyInt(2)>>, <<"latitude", PyInt(44)>>,
         <<"time", PyTime(2020, 2, 11, 12, 0)>> >>,
      << <<"smarts_use_standard_atmos", PyBool(TRUE)>>,
         <<"tropospheric_ozone", PyFloat(2)>>, <<"lower_limit", PyFloat(1)>> >>,
      << <<"season", PyStr("autumn")>> >>,
      << <<"atmosphere", PyStr("martian")>>, <<"zenith", PyInt(30)>> >>,
      << <<"boundary_layer_ozone", PyStr("high")>> >> }

\* dict d without key k
Without(d, k) == SelectSeq(d, LAMBDA e : e[1] # k)

\* the dictionaries cardify is called with: what translate returns, with
\* the mode selector, the keys of the two sub-cards of CARD 3, the %f
\* fields and a %s field varied
IatmosValues ==
    {PyInt(0), PyInt(1), PyInt(2), PyInt(-1), PyInt(7), PyBool(FALSE), PyBool(TRUE),
     PyStr("1"), PyFloat(0), PyFloat(4), PyFloat(6)}

CardInputs ==
    LET bases == {translate(c).translated :
                     c \in {c \in RunConfigs : translate(c).err = "none"}}
        modes == {Put(b, "IATMOS", m) : b \in bases, m \in IatmosValues}
    IN  modes
        \cup {Without(t, "ATMOS") : t \in modes}
        \cup {Without(t, "TAIR") : t \in modes}
        \cup {Put(t, "ApNO", PyStr("trace")) : t \in modes}
        \cup {Put(Put(t, "AbO3", PyFloat(2)), "ApNO", PyFloat(-1)) : t \in modes}
        \cup {Put(t, "ALTIT", PyTime(2020, 2, 11, 12, 0)) : t \in modes}

\* the exit codes of the solver's shell
ExitCodes == {0, 1, 42, 127, -9}

\* the lines the solver writes to smarts295.out.txt
LogLines ==
    { " Gueymard SMARTS 2.9.5",
      " ** ERROR #7 *** Sun is below the horizon",
      " ** ERROR #3 *** Input value out of range",
      "ERROR",
      " 0 errors, 2 warnings" }

RECURSIVE Logs(_)
Logs(n) ==
    IF n = 0 THEN {<<>>}
    ELSE Logs(n - 1) \cup {Append(l, x) : l \in Logs(n - 1), x \in LogLines}

\* what the solver leaves as smarts295.ext.txt: no file, a table of the
\* spectrum, or a file that is no table
OutputFiles == {"absent", "table", "malformed"}

\* what the solver leaves as smarts295.out.txt: no file, or a file of lines
LogFiles ==
    {[present |-> FALSE, lines |-> <<>>]}
        \cup {[present |-> TRUE, lines |-> l] : l \in Logs(MaxLogLen)}

-----------------------------------------------------------------------------
(* State *)

NoTranslation == TState("none", <<>>, <<>>, <<>>)
NoDeck == [err |-> "none", content |-> ""]
NoWorking == [acquired |-> 0, released |-> 0, linked |-> FALSE,
              written |-> FALSE, input |-> ""]
NoSolver == [runs |-> 0, code |-> 0, hasLog |-> FALSE, log |-> <<>>, output |-> "absent",
             logRead |-> FALSE]
NoOutcome == [kind |-> "none", cls |-> "none", msg |-> ""]

Raised(e) == [kind |-> "raised", cls |-> e.cls, msg |-> e.msg]
Returned == [kind |-> "returned", cls |-> "none", msg |-> ""]

Init ==
    /\ pc = "idle"
    /\ op = "none"
    /\ config = <<>>
    /\ tin = <<>>
    /\ tres = NoTranslation
    /\ cres = NoDeck
    /\ working = NoWorking
    /\ solver = NoSolver
    /\ pending = NoExc
    /\ outcome = NoOutcome
    /\ trace = <<>>

-----------------------------------------------------------------------------
(* The module-level functions, called on their own *)

\* translate(params)
CallTranslate ==
    /\ pc = "idle"
    /\ \E params \in ParamSets :
          /\ config' = params
          /\ tres' = translate(params)
          /\ outcome' = IF translate(params).err = "none" THEN Returned
                        ELSE Raised(Exc(translate(params).err, ""))
    /\ op' = "translate"
    /\ pc' = "done"
    /\ UNCHANGED <<tin, cres, working, solver, pending, trace>>

\* cardify(params)
CallCardify ==
    /\ pc = "idle"
    /\ \E params \in CardInputs :
          /\ tin' = params
          /\ cres' = cardify(params)
          /\ outcome' = IF cardify(params).err = "none" THEN Returned
                        ELSE Raised(Exc(cardify(params).err, ""))
    /\ op' = "cardify"
    /\ pc' = "done"
    /\ UNCHANGED <<config, tres, working, solver, pending, trace>>

-----------------------------------------------------------------------------
(* The methods of SMARTS, statement by statement *)

\* `with SMARTS(config).run() as working:`, SMARTS(config).spectrum(),
\* SMARTS(config).irradiance() or SMARTS(config).raw(rawfile)
Start ==
    /\ pc = "idle"
    /\ \E o \in {"run", "spectrum", "irradiance", "raw"}, c \in RunConfigs :
          /\ op' = o
          /\ config' = c
    /\ pc' = "enter"
    /\ UNCHANGED <<tin, tres, cres, working, solver, pending, outcome, trace>>

\* lines 35 and 42: with _rtm.Working(self) as working
Acquire ==
    /\ pc = "enter"
    /\ working' = [working EXCEPT !.acquired = @ + 1]
    /\ trace' = Append(trace, "acquire")
    /\ pc' = IF op = "raw" THEN "get" ELSE "link"
    /\ UNCHANGED <<op, config, tin, tres, cres, solver, pending, outcome>>

\* line 36: return working.get(rawfile); the file is there or it is not,
\* and either way control leaves the with block of SMARTS.raw
RawGet ==
    /\ pc = "get"
    /\ \E present \in BOOLEAN : pending' = RawError(present)
    /\ trace' = Append(trace, "get")
    /\ pc' = "exit"
    /\ UNCHANGED <<op, config, tin, tres, cres, working, solver, outcome>>

\* line 43: working.link(resources, path=resource_path)
Link ==
    /\ pc = "link"
    /\ working' = [working EXCEPT !.linked = TRUE]
    /\ trace' = Append(trace, "link")
    /\ pc' = "cards"
    /\ UNCHANGED <<op, config, tin, tres, cres, solver, pending, outcome>>

\* line 45: cards = cardify(translate(self.config))
MakeCards ==
    /\ pc = "cards"
    /\ tres' = translate(config)
    /\ tin' = translate(config).translated
    /\ cres' = Deck(config)
    /\ trace' = Append(trace, "cards")
    /\ IF Deck(config).err = "none"
       THEN /\ pc' = "write"
            /\ pending' = pending
       ELSE /\ pc' = Unwind("cards")
            /\ pending' = Exc(Deck(config).err, "")
    /\ UNCHANGED <<op, config, working, solver, outcome>>

\* line 46: working.write(input_file, cards)
WriteInput ==
    /\ pc = "write"
    /\ working' = [working EXCEPT !.written = TRUE, !.input = cres.content]
    /\ trace' = Append(trace, "write")
    /\ pc' = "exec"
    /\ UNCHANGED <<op, config, tin, tres, cres, solver, pending, outcome>>

\* line 47: code, err, rcfg = working.run(full_cmd, output_log); the solver
\* exits with some code and leaves, or does not leave, its log
\* smarts295.out.txt and its output file
RunSolver ==
    /\ pc = "exec"
    /\ \E code \in ExitCodes, file \in LogFiles, out \in OutputFiles :
          solver' = [runs |-> solver.runs + 1, code |-> code, hasLog |-> file.present,
                     log |-> file.lines, output |-> out, logRead |-> FALSE]
    /\ trace' = Append(trace, "invoke")
    /\ pc' = "classify"
    /\ UNCHANGED <<op, config, tin, tres, cres, working, pending, outcome>>

\* lines 49-62: raise for a bad exit code, else get the log (IOError when
\* it is not there) and scan it and raise for its first ERROR line, else
\* yield working; logRead records that working.get was called for the log
Classify ==
    /\ pc = "classify"
    /\ solver' = [solver EXCEPT !.logRead = (ExitError(solver.code).cls = "none")]
    /\ IF Classification(solver.code, solver.hasLog, solver.log).cls = "none"
       THEN /\ pc' = "block"
            /\ pending' = pending
            /\ trace' = trace \o <<"classify", "yield">>
       ELSE /\ pc' = Unwind("classify")
            /\ pending' = Classification(solver.code, solver.hasLog, solver.log)
            /\ trace' = Append(trace, "classify")
    /\ UNCHANGED <<op, config, tin, tres, cres, working, outcome>>

\* lines 68-81: the block of SMARTS.spectrum gets the output file and
\* parses it
SpectrumBlock ==
    /\ pc = "block"
    /\ op \in {"spectrum", "irradiance"}
    /\ pending' = BlockError(solver.output)
    /\ pc' = IF BlockError(solver.output).cls = "none" THEN "exit" ELSE Unwind("block")
    /\ UNCHANGED <<op, config, tin, tres, cres, working, solver, outcome, trace>>

\* the block of another caller of run() ends, normally or with an exception
CallerBlock ==
    /\ pc = "block"
    /\ op = "run"
    /\ \E raises \in BOOLEAN :
          /\ pending' = IF raises THEN Exc("CallerError", "") ELSE NoExc
          /\ pc' = IF raises THEN Unwind("block") ELSE "exit"
    /\ UNCHANGED <<op, config, tin, tres, cres, working, solver, outcome, trace>>

\* control leaves `with _rtm.Working(self)`: the working context is released
ExitWorking ==
    /\ pc = "exit"
    /\ working' = [working EXCEPT !.released = @ + 1]
    /\ pc' = "leave"
    /\ UNCHANGED <<op, config, tin, tres, cres, solver, pending, outcome, trace>>

\* the call returns to its caller, or the exception in flight reaches it;
\* line 88: the spectrum returned to SMARTS.irradiance is integrated next,
\* an exception of spectrum() passes through irradiance to the caller
Leave ==
    /\ pc = "leave"
    /\ IF op = "irradiance" /\ pending.cls = "none"
       THEN /\ pc' = "integrate"
            /\ outcome' = outcome
       ELSE /\ pc' = "done"
            /\ outcome' = IF pending.cls = "none" THEN Returned ELSE Raised(pending)
    /\ pending' = NoExc
    /\ UNCHANGED <<op, config, tin, tres, cres, working, solver, trace>>

\* lines 89-90: numpy.trapz over the spectrum and the DataFrame returned,
\* after the working context of spectrum() has been released
Integrate ==
    /\ pc = "integrate"
    /\ outcome' = Returned
    /\ pc' = "done"
    /\ UNCHANGED <<op, config, tin, tres, cres, working, solver, pending, trace>>

\* the caller goes on to its next call, with fresh objects
Reset ==
    /\ pc = "done"
    /\ pc' = "idle"
    /\ op' = "none"
    /\ config' = <<>>
    /\ tin' = <<>>
    /\ tres' = NoTranslation
    /\ cres' = NoDeck
    /\ working' = NoWorking
    /\ solver' = NoSolver
    /\ pending' = NoExc
    /\ outcome' = NoOutcome
    /\ trace' = <<>>

Next ==
    \/ CallTranslate
    \/ CallCardify
    \/ Start
    \/ Acquire
    \/ RawGet
    \/ Link
    \/ MakeCards
    \/ WriteInput
    \/ RunSolver
    \/ Classify
    \/ SpectrumBlock
    \/ CallerBlock
    \/ ExitWorking
    \/ Leave
    \/ Integrate
    \/ Reset

Spec == Init /\ [][Next]_vars

-----------------------------------------------------------------------------
(* Properties *)

Last(q) == q[Len(q)]

\* the positions of the line ends of a text
LineEnds(s) == {i \in 1..Len(s) : SubSeq(s, i, i) = "\n"}

\* the position of the k-th line end
LineEnd(s, k) ==
    CHOOSE i \in LineEnds(s) : Cardinality({j \in LineEnds(s) : j < i}) = k - 1

\* the lines of a text that ends with a line end, each without its line end
Lines(s) ==
    [k \in 1..Cardinality(LineEnds(s)) |->
        SubSeq(s, (IF k = 1 THEN 1 ELSE LineEnd(s, k - 1) + 1), LineEnd(s, k) - 1)]

\* the call in progress goes through SMARTS.run
InRun == op \in {"run", "spectrum", "irradiance"}

\* the call in progress goes through SMARTS.spectrum
InSpectrum == op \in {"spectrum", "irradiance"}

\* a handler exists that catches one of the two classes and not the other
Distinguishable(a, b) == \E h \in Classes : Catches(h, a) # Catches(h, b)

\* some line of the log contains the text
SomeLine(text) == \E i \in 1..Len(solver.log) : Contains(text, solver.log[i])

\* SMARTS.run has classified the solver's result and raised
RunRaised == InRun /\ trace # <<>> /\ Last(trace) = "classify"

\* SMARTS.run has classified the solver's result and yielded
RunYielded == InRun /\ trace # <<>> /\ Last(trace) = "yield"

\* the exception SMARTS.run raised, in flight or already at the caller
RunError == IF outcome.kind = "raised" THEN Exc(outcome.cls, outcome.msg) ELSE pending

\* C1: for every exit code other than 0 the run fails, the log
\* is never read, and the error for exit code 127 and the error for any
\* other nonzero exit code are of kinds a handler can tell apart by class
C1_DistinctKinds ==
    (pc = "done" /\ InRun /\ solver.runs = 1 /\ solver.code # 0) =>
        /\ outcome.kind = "raised"
        /\ ~solver.logRead
        /\ \A c \in ExitCodes \ {0} :
              ((c = 127) # (solver.code = 127)) =>
                  Distinguishable(outcome.cls, ExitError(c).cls)

\* C2 (as stated): with exit code 0, a log with a line containing the
\* code-7 marker anywhere gives SunDownError, a log with an ERROR line and no
\* marker line gives SMARTSError, and the run yields exactly when no line
\* contains ERROR (for every sequence of log lines: the log is there)
C2_MarkerAnywhere ==
    ((RunRaised \/ RunYielded) /\ solver.code = 0 /\ solver.hasLog) =>
        /\ SomeLine("** ERROR #7 ***") => (RunRaised /\ RunError.cls = "SunDownError")
        /\ (SomeLine("ERROR") /\ ~SomeLine("** ERROR #7 ***")) =>
              (RunRaised /\ RunError.cls = "SMARTSError")
        /\ RunYielded <=> ~SomeLine("ERROR")

\* C2 (amended): with exit code 0 and a log that is there, the first line
\* containing ERROR decides: SunDownError if that line contains the code-7
\* marker, SMARTSError if it does not, whatever the later lines hold; the
\* run yields exactly when no line contains ERROR; with exit code 0 and no
\* log the run fails with the IOError of the read
C2_FirstErrorLineDecides ==
    ((RunRaised \/ RunYielded) /\ solver.code = 0) =>
        LET errs == {i \in 1..Len(solver.log) : Contains("ERROR", solver.log[i])}
            first == CHOOSE i \in errs : \A j \in errs : i <= j
        IN  IF ~solver.hasLog
            THEN RunRaised /\ RunError.cls = "IOError"
            ELSE /\ RunYielded <=> errs = {}
                 /\ errs # {} =>
                       /\ RunRaised
                       /\ RunError.cls = (IF Contains("** ERROR #7 ***", solver.log[first])
                                          THEN "SunDownError" ELSE "SMARTSError")
                       /\ Catches("SMARTSError", RunError.cls)

C2_Witness ==
    /\ RunRaised /\ solver.code = 0 /\ solver.hasLog /\ Len(solver.log) = 2
    /\ Contains("ERROR", solver.log[1]) /\ ~Contains("** ERROR #7 ***", solver.log[1])
    /\ Contains("** ERROR #7 ***", solver.log[2])
    /\ RunError.cls = "SMARTSError"

\* C3: in every run the working context is acquired once and released
\* once; it is not released while the caller's block runs, and it has been
\* released when the result, error or not, reaches the caller
C3_ReleasedExactlyOnce ==
    InRun =>
        /\ working.acquired <= 1
        /\ working.released <= working.acquired
        /\ pc = "block" => (working.acquired = 1 /\ working.released = 0)
        /\ pc = "done" => outcome.kind # "none"
        /\ outcome.kind # "none" => (working.acquired = 1 /\ working.released = 1)

C3_Witness ==
    /\ InRun /\ pc = "done" /\ outcome.kind = "raised" /\ outcome.cls = "KeyError"
    /\ working.acquired = 1 /\ working.released = 1

\* whether the solver's result was classified as a success: exit code 0 and
\* a log that is there and has no ERROR line
Success == solver.code = 0 /\ solver.hasLog /\ ~SomeLine("ERROR")

\* the errors of the other kinds: those of the exit codes and those of the
\* lines of the log
OtherErrors ==
    {ExitError(c) : c \in ExitCodes \ {0}}
        \cup {LineError(l) : l \in {l \in LogLines : LineError(l).cls # "none"}}

\* C4: spectrum fails with the missing-output error exactly when the run
\* was a success and the output file is absent, a failed classification
\* reports its own error whether or not the output file is there, and the
\* missing-output error is of a kind a handler can tell apart by class from
\* the error of every other kind
C4_DistinctMissingOutput ==
    (pc = "done" /\ InSpectrum /\ solver.runs = 1) =>
        /\ (outcome.msg = "didn't get output") <=> (Success /\ solver.output = "absent")
        /\ ~Success => outcome = Raised(Classification(solver.code, solver.hasLog, solver.log))
        /\ (Success /\ solver.output = "absent") =>
              /\ outcome.kind = "raised"
              /\ \A e \in OtherErrors : Distinguishable(outcome.cls, e.cls)

\* the value translate works on for a semantic key: the caller's, or the
\* default
Given(k) == Get(Merged(config), k)

\* the documented code of each member of the three enumerations
Documented(k) ==
    CASE k = "season" ->
            {<<PyStr("winter"), PyStr("WINTER")>>, <<PyStr("summer"), PyStr("SUMMER")>>}
      [] k = "surface_type" ->
            {<<PyStr("snow"), PyInt(3)>>, <<PyStr("clear water"), PyInt(2)>>,
             <<PyStr("sand"), PyInt(6)>>, <<PyStr("vegetation"), PyInt(17)>>,
             <<PyStr("lake water"), PyInt(35)>>, <<PyStr("sea water"), PyInt(35)>>,
             <<PyStr("ocean water"), PyInt(35)>>}
      [] k = "atmosphere" ->
            {<<PyStr("tropical"), PyStr("TRL")>>,
             <<PyStr("mid-latitude summer"), PyStr("MLS")>>,
             <<PyStr("mid-latitude winter"), PyStr("MLW")>>,
             <<PyStr("sub-arctic summer"), PyStr("SAS")>>,
             <<PyStr("sub-arctic winter"), PyStr("SAW")>>,
             <<PyStr("us62"), PyStr("USSA")>>}

ShortCode(k) ==
    CASE k = "season" -> "SEASON"
      [] k = "surface_type" -> "IALBDX"
      [] k = "atmosphere" -> "ATMOS"

Enumerations == {"season", "surface_type", "atmosphere"}

IsMember(k) == \E e \in Documented(k) : e[1] = Given(k)

\* C5: translate succeeds when the season, the surface type and the
\* atmosphere are members of their enumerations, and then each short-code
\* is the documented code of the member; when one of them is no member it
\* raises KeyError and returns no dictionary
C5_ClosedEnumerations ==
    (op = "translate" /\ pc = "done") =>
        /\ (\A k \in Enumerations : IsMember(k)) =>
              /\ tres.err = "none" /\ outcome.kind = "returned"
              /\ \A k \in Enumerations :
                    <<Given(k), Get(tres.translated, ShortCode(k))>> \in Documented(k)
        /\ (\E k \in Enumerations : ~IsMember(k)) =>
              /\ tres.err = "KeyError" /\ tres.translated = <<>>
              /\ outcome.kind = "raised" /\ outcome.cls = "KeyError"

C5_Witness ==
    /\ op = "translate" /\ pc = "done"
    /\ HasKey(config, "surface_type") /\ Get(config, "surface_type") = PyStr("ocean water")
    /\ HasKey(config, "atmosphere") /\ Get(config, "atmosphere") = PyStr("us62")
    /\ tres.err = "none"
    /\ Get(tres.translated, "IALBDX") = PyInt(35)
    /\ Get(tres.translated, "ATMOS") = PyStr("USSA")

\* the mode selector of the dictionary handed to cardify is 0, or is 1
Mode(n) ==
    /\ HasKey(tin, "IATMOS")
    /\ LET x == Get(tin, "IATMOS")
       IN  \/ x.t = "int" /\ x.v = n
           \/ x.t = "bool" /\ x.v = (n = 1)
           \/ x.t = "float" /\ x.v = 4 * n

\* C6: cardify raises AssertionError and returns no deck when IATMOS is
\* neither 0 nor 1; with IATMOS 0 the fifth line is the TAIR RH 'SEASON' TDAY
\* sub-card, with IATMOS 1 it is the quoted ATMOS sub-card, and in these two
\* cases no AssertionError is raised
C6_ModeSelector ==
    (op = "cardify" /\ pc = "done") =>
        /\ (~Mode(0) /\ ~Mode(1)) =>
              /\ cres.err = "AssertionError" /\ cres.content = ""
              /\ outcome.kind = "raised" /\ outcome.cls = "AssertionError"
        /\ (Mode(0) \/ Mode(1)) => cres.err # "AssertionError"
        /\ (Mode(0) /\ cres.err = "none") =>
              Lines(cres.content)[5] =
                  Str(Get(tin, "TAIR")) \o " " \o Str(Get(tin, "RH")) \o " '"
                      \o Str(Get(tin, "SEASON")) \o "' " \o Str(Get(tin, "TDAY"))
        /\ (Mode(1) /\ cres.err = "none") =>
              Lines(cres.content)[5] = "'" \o Str(Get(tin, "ATMOS")) \o "'"

C6_Witness ==
    /\ op = "cardify" /\ pc = "done"
    /\ Get(tin, "IATMOS") = PyInt(2)
    /\ cres.err = "AssertionError" /\ outcome.cls = "AssertionError"

\* the comment of a line of the deck, "" for a line without one
CommentOf(line) ==
    IF \E i \in 1..(Len(line) - 5) : SubSeq(line, i, i + 5) = " \t\t\t! "
    THEN LET i == CHOOSE i \in 1..(Len(line) - 5) : SubSeq(line, i, i + 5) = " \t\t\t! "
         IN  SubSeq(line, i + 6, Len(line))
    ELSE ""

\* the cards of a deck: the comment that numbers each line
Skeleton(content) == [i \in 1..Len(Lines(content)) |-> CommentOf(Lines(content)[i])]

CardOrder ==
    <<"1 COMNT", "2 ISPR mode select", "", "3 IATMOS mode select", "",
      "4 IH2O mode select", "5 IO3 mode select", "ozone column", "6 IGAS", "ILOAD",
      "gasses", "7 qCO2 ppm", "", "8 AEROS", "", "9 ITURB", "", "10 IALBDX", "",
      "11 blergh", "12 IPRT", "", "", "", "13 ICIRC", "14 ISCAN", "15 ILLUM",
      "16 IUV", "17 IMASS", "", "">>

\* C7: every deck cardify returns has the same lines in the same order,
\* cards 1 to 17 with their sub-cards, whatever the values and whichever of
\* the two modes of CARD 3; the lines '4' and '2 3 4 5' are the 23rd and the
\* 24th; the deck ends with one blank line after the last card
C7_SameCards ==
    (op = "cardify" /\ pc = "done" /\ cres.err = "none") =>
        LET lines == Lines(cres.content)
        IN  /\ Skeleton(cres.content) = CardOrder
            /\ lines[23] = "4"
            /\ lines[24] = "2 3 4 5"
            /\ lines[Len(lines)] = ""
            /\ lines[Len(lines) - 1] # ""
            /\ SubSeq(cres.content, Len(cres.content), Len(cres.content)) = "\n"

C7_Witness ==
    /\ op = "cardify" /\ pc = "done" /\ cres.err = "none"
    /\ Get(tin, "IATMOS") = PyBool(TRUE)
    /\ ~HasKey(tin, "TAIR")
    /\ Len(Lines(cres.content)) = 31

\* keys translate has no table entry for, short-codes among them, and
\* unsupported keys, with the values a caller may give them
TolerantKeys ==
    {"zenith", "HEIGHT", "SOLARC", "IATMOS", "nitrogen", "oxygen", "cloud_thickness"}

TolerantValues == {PyInt(9), PyStr("x")}

NoDuplicates(q) == \A i, j \in 1..Len(q) : q[i] = q[j] => i = j

\* C8: adding an unknown or an unsupported key to the caller's parameters
\* changes neither the dictionary translate returns nor whether it returns
\* one; translate processes every key of the merged set once, on one of the
\* four paths
C8_TolerantOfUnknownKeys ==
    (op = "translate" /\ pc = "done") =>
        /\ \A k \in TolerantKeys, v \in TolerantValues :
              LET more == translate(Put(config, k, v))
              IN  more.err = tres.err /\ more.translated = tres.translated
        /\ NoDuplicates(tres.processed)
        /\ Len(tres.paths) = Len(tres.processed)
        /\ tres.err = "none" =>
              {tres.processed[i] : i \in 1..Len(tres.processed)} = Keys(Merged(config))
        /\ \A i \in 1..Len(tres.processed) :
              LET k == tres.processed[i]
              IN  /\ tres.paths[i] = "dropped" <=> InSeq(unsupported, k)
                  /\ tres.paths[i] = "unknown" <=>
                        (~InSeq(unsupported, k) /\ ~HasKey(direct, k) /\ k \notin ConvertKeys)
                  /\ tres.paths[i] \in {"dropped", "direct", "derived", "unknown"}

C8_Witness ==
    /\ op = "translate" /\ pc = "done" /\ tres.err = "none"
    /\ HasKey(config, "zenith") /\ HasKey(config, "nitrogen")
    /\ ~HasKey(tres.translated, "zenith") /\ ~HasKey(tres.translated, "nitrogen")
    /\ tres.translated = translate(<<>>).translated

\* the order of the steps of SMARTS.run
StepOrder == <<"acquire", "link", "cards", "write", "invoke", "classify", "yield">>

\* C9: the steps of a run happen in the fixed order, the solver is invoked
\* at most once and only after the input file is written, and when
\* translate or cardify raises the input file is not written and the solver
\* is not invoked
C9_StepOrder ==
    InRun =>
        /\ Len(trace) <= Len(StepOrder)
        /\ trace = SubSeq(StepOrder, 1, Len(trace))
        /\ solver.runs <= 1
        /\ solver.runs = 1 => (working.written /\ working.input = cres.content)
        /\ working.written => (tres.err = "none" /\ cres.err = "none")
        /\ (Len(trace) >= 3 /\ cres.err # "none") =>
              (~working.written /\ solver.runs = 0 /\ Len(trace) = 3)

C9_Witness ==
    /\ InRun /\ pc = "done" /\ trace = <<"acquire", "link", "cards">>
    /\ cres.err = "TypeError" /\ outcome.cls = "TypeError"
    /\ ~working.written /\ solver.runs = 0

\* a wavelength limit in nm: the number given in um times 1000, a float
\* for a float and an int for an int
Nanometres(x) == IF x.t = "float" THEN PyFloat(1000 * x.v) ELSE PyInt(1000 * x.v)

\* C10: every dictionary translate returns has HEIGHT 0, ZONE 0 and SUNCOR
\* 1 whatever the caller sets, and ALPHA1 = ALPHA2, WLMN = WPMN, WLMX = WPMX,
\* each pair holding the value converted from its one semantic key
C10_HardCodedAndFanOut ==
    ((op = "translate" /\ pc = "done") \/ (InRun /\ Len(trace) >= 3)) =>
        (tres.err = "none" =>
            /\ Get(tres.translated, "HEIGHT") = PyInt(0)
            /\ Get(tres.translated, "ZONE") = PyInt(0)
            /\ Get(tres.translated, "SUNCOR") = PyInt(1)
            /\ Get(tres.translated, "ALPHA1") = Given("angstroms_exponent")
            /\ Get(tres.translated, "ALPHA2") = Given("angstroms_exponent")
            /\ Get(tres.translated, "WLMN") = Nanometres(Given("lower_limit"))
            /\ Get(tres.translated, "WPMN") = Get(tres.translated, "WLMN")
            /\ Get(tres.translated, "WLMX") = Nanometres(Given("upper_limit"))
            /\ Get(tres.translated, "WPMX") = Get(tres.translated, "WLMX"))

C10_Witness ==
    /\ op = "translate" /\ pc = "done" /\ tres.err = "none"
    /\ HasKey(config, "HEIGHT") /\ Get(config, "HEIGHT") = PyInt(5)
    /\ HasKey(config, "elevation") /\ Get(config, "elevation") = PyInt(7)
    /\ Get(tres.translated, "HEIGHT") = PyInt(0)

====
